---- MODULE Spec2Model ----
(***************************************************************************)
(* gb_string.h: header-prefixed, null-terminated dynamic byte strings.     *)
(*                                                                         *)
(* A block is one allocation [Header | payload ... | terminator].  A       *)
(* gb_String is modelled by the id of its block (0 is GB_NULLPTR); the     *)
(* payload byte str[i] is data[i + 1] of the block.                        *)
(***************************************************************************)
EXTENDS Integers, Sequences, FiniteSets, TLC

\* ------------------------------------------------------------------ bounds
MaxLen == 3          \* longest payload a run builds
MaxAdd == 2          \* largest add_len asked of gb_string_make_space_for
MaxSrc == 1          \* longest byte array given to one call
MaxStr == 2          \* longest C string given to one call
MaxBlocks == 3       \* block ids the allocator hands out

\* --------------------------------------------------------------- constants
HeaderSize == 16     \* sizeof(struct gb_String_Header): two gb_usize
GB_NULLPTR == 0
NUL == 0             \* '\0'

Byte == {0, 1}                    \* byte values: the terminator value and one other
Uninit == Cardinality(Byte)       \* a value outside Byte: memory malloc has not initialised
Char == Byte \ {NUL}
Blocks == 1..MaxBlocks

Min(a, b) == IF a < b THEN a ELSE b
Max(a, b) == IF a > b THEN a ELSE b

SeqsUpTo(S, n) == UNION {[1..k -> S] : k \in 0..n}
ByteSeqs == SeqsUpTo(Byte, MaxSrc)
\* a C string in memory: non-NUL bytes followed by the terminator
CStrings == {s \o <<NUL>> : s \in SeqsUpTo(Char, MaxStr)}

\* strlen(s): number of bytes before the first NUL
RECURSIVE strlenFrom(_, _)
strlenFrom(s, i) == IF s[i] = NUL THEN i - 1 ELSE strlenFrom(s, i + 1)
strlen(s) == strlenFrom(s, 1)

\* strchr(s, c) != NULL: c occurs in the string s, its terminator included
RECURSIVE strchrFrom(_, _, _)
strchrFrom(s, c, i) ==
    IF s[i] = c THEN TRUE
    ELSE IF s[i] = NUL THEN FALSE
    ELSE strchrFrom(s, c, i + 1)
strchr(s, c) == strchrFrom(s, c, 1)

\* ------------------------------------------------------------------ memory
DeadBlock == [live |-> FALSE, size |-> 0, len |-> 0, cap |-> 0, data |-> <<>>]

\* One call's view of the machine: the heap, what the allocator was asked,
\* what was freed, and the undefined accesses made.
Start(heap) == [heap |-> heap, allocs |-> <<>>, fails |-> 0, frees |-> <<>>, ub |-> {}]

HasFree(heap) == \E b \in Blocks : ~heap[b].live
FreshBlock(heap) == CHOOSE b \in Blocks : ~heap[b].live /\ \A c \in Blocks : c < b => heap[c].live

\* GB_ALLOC(sz): ok says whether malloc succeeds
GB_ALLOC(r, sz, ok) ==
    IF ok /\ HasFree(r.heap)
    THEN LET b == FreshBlock(r.heap) IN
         [r |-> [r EXCEPT !.heap[b] = [live |-> TRUE, size |-> sz, len |-> Uninit, cap |-> Uninit,
                                        data |-> [i \in 1..(sz - HeaderSize) |-> Uninit]],
                          !.allocs = Append(@, sz)],
          ptr |-> b]
    ELSE [r |-> [r EXCEPT !.fails = @ + 1], ptr |-> GB_NULLPTR]

\* GB_FREE(ptr)
GB_FREE(r, b) ==
    IF b = GB_NULLPTR THEN r
    ELSE IF ~r.heap[b].live THEN [r EXCEPT !.ub = @ \cup {"double_free"}, !.frees = Append(@, b)]
    ELSE [r EXCEPT !.heap[b] = DeadBlock, !.frees = Append(@, b)]

\* which undefined access, if any, touching payload offsets off .. off+n-1 of block b makes
AccessUB(heap, b, off, n, kind) ==
    IF b = GB_NULLPTR THEN {"null_" \o kind}
    ELSE IF ~heap[b].live THEN {"freed_" \o kind}
    ELSE IF n > 0 /\ (off < 0 \/ off + n > Len(heap[b].data)) THEN {"oob_" \o kind}
    ELSE {}

\* memcpy(str + off, bytes, n) / str[off] = c
WriteBytes(r, b, off, bytes) ==
    LET n == Len(bytes)
        ub == AccessUB(r.heap, b, off, n, "write") IN
    IF ub # {} THEN [r EXCEPT !.ub = @ \cup ub]
    ELSE [r EXCEPT !.heap[b].data =
            [j \in 1..Len(@) |-> IF j > off /\ j <= off + n THEN bytes[j - off] ELSE @[j]]]

\* the n bytes at str + off; junk is what a read of freed memory produces
ReadBytes(heap, b, off, n, junk) ==
    IF AccessUB(heap, b, off, n, "read") # {} THEN SubSeq(junk, 1, n)
    ELSE SubSeq(heap[b].data, off + 1, off + n)

gb_set_string_length(r, str, len) ==
    IF AccessUB(r.heap, str, 0, 0, "write") # {}
    THEN [r EXCEPT !.ub = @ \cup AccessUB(r.heap, str, 0, 0, "write")]
    ELSE [r EXCEPT !.heap[str].len = len]

gb_set_string_capacity(r, str, cap) ==
    IF AccessUB(r.heap, str, 0, 0, "write") # {}
    THEN [r EXCEPT !.ub = @ \cup AccessUB(r.heap, str, 0, 0, "write")]
    ELSE [r EXCEPT !.heap[str].cap = cap]

gb_string_length(heap, str) == heap[str].len
gb_string_capacity(heap, str) == heap[str].cap

\* memset(ptr, 0, size) over a whole block, header included
MemsetBlock(r, b) ==
    IF b = GB_NULLPTR THEN [r EXCEPT !.ub = @ \cup {"null_write"}]
    ELSE [r EXCEPT !.heap[b].len = 0, !.heap[b].cap = 0,
                   !.heap[b].data = [j \in 1..Len(@) |-> NUL]]

\* a source argument: bytes held outside the heap, or bytes of a gb_String
NullSrc == [kind |-> "null", ptr |-> GB_NULLPTR, bytes |-> <<>>]
BytesSrc(bs) == [kind |-> "bytes", ptr |-> GB_NULLPTR, bytes |-> bs]
StrSrc(s) == [kind |-> "str", ptr |-> s, bytes |-> <<>>]

SrcUB(heap, src, n) ==
    IF src.kind = "str" THEN AccessUB(heap, src.ptr, 0, n, "read") ELSE {}
SrcRead(heap, src, n, junk) ==
    IF src.kind = "str" THEN ReadBytes(heap, src.ptr, 0, n, junk) ELSE SubSeq(src.bytes, 1, n)

\* ------------------------------------------------------------ construction
gb_make_string_length(r0, init_str, len, ok) ==
    LET header_size == HeaderSize
        a == GB_ALLOC(r0, header_size + len + 1, ok)
        ptr == a.ptr
        r1 == IF init_str.kind = "null" THEN MemsetBlock(a.r, ptr) ELSE a.r
    IN  IF ptr = GB_NULLPTR THEN [r |-> r1, ret |-> GB_NULLPTR]
        ELSE LET str == ptr
                 r2 == gb_set_string_capacity(gb_set_string_length(r1, str, len), str, len)
                 r3 == IF len # 0 /\ init_str.kind # "null"
                       THEN WriteBytes([r2 EXCEPT !.ub = @ \cup SrcUB(r2.heap, init_str, len)],
                                       str, 0, SrcRead(r2.heap, init_str, len, <<>>))
                       ELSE r2
                 r4 == WriteBytes(r3, str, len, <<NUL>>)
             IN [r |-> r4, ret |-> str]


gb_make_string(r, str, ok) ==
    LET len == IF str.kind # "null" THEN strlen(str.bytes) ELSE 0
    IN gb_make_string_length(r, str, len, ok)

gb_free_string(r, str) ==
    IF str = GB_NULLPTR THEN r ELSE GB_FREE(r, str)

gb_duplicate_string(r, str, ok) ==
    gb_make_string_length(r, StrSrc(str), gb_string_length(r.heap, str), ok)

gb_string_available_space(heap, str) ==
    IF heap[str].cap > heap[str].len THEN heap[str].cap - heap[str].len ELSE 0

gb_clear_string(r, str) ==
    WriteBytes(gb_set_string_length(r, str, 0), str, 0, <<NUL>>)

\* ------------------------------------------------------------------ growth
\* memcpy(new_ptr, ptr, n): the first n bytes of a block, its header first
CopyBlock(r, dst, src, n) ==
    LET s == r.heap[src]
        d == r.heap[dst]
        k == n - HeaderSize IN
    IF n > s.size \/ n > d.size \/ n < HeaderSize
    THEN [r EXCEPT !.ub = @ \cup {"oob_copy"}]
    ELSE [r EXCEPT !.heap[dst].len = s.len, !.heap[dst].cap = s.cap,
                   !.heap[dst].data = [j \in 1..Len(@) |-> IF j <= k THEN s.data[j] ELSE @[j]]]

gb__string_realloc_free_first(r, ptr, old_size, new_size, ok) ==
    IF ptr = GB_NULLPTR THEN GB_ALLOC(r, new_size, ok)
    ELSE LET size == IF new_size < old_size THEN old_size ELSE new_size IN
         IF old_size = size THEN [r |-> r, ptr |-> ptr]
         ELSE LET a == GB_ALLOC(GB_FREE(r, ptr), size, ok) IN
              IF a.ptr = GB_NULLPTR THEN [r |-> a.r, ptr |-> GB_NULLPTR]
              ELSE [r |-> [a.r EXCEPT !.heap[a.ptr].len = r.heap[ptr].len,
                                      !.heap[a.ptr].cap = r.heap[ptr].cap,
                                      !.heap[a.ptr].data =
                                          [j \in 1..Len(@) |-> IF j <= old_size - HeaderSize
                                                               THEN r.heap[ptr].data[j] ELSE @[j]]],
                    ptr |-> a.ptr]

gb__string_realloc(r, ptr, old_size, new_size, ok) ==
    IF ptr = GB_NULLPTR THEN GB_ALLOC(r, new_size, ok)
    ELSE LET size == IF new_size < old_size THEN old_size ELSE new_size IN
         IF old_size = size THEN [r |-> r, ptr |-> ptr]
         ELSE LET a == GB_ALLOC(r, size, ok) IN
              IF a.ptr = GB_NULLPTR THEN [r |-> a.r, ptr |-> GB_NULLPTR]
              ELSE [r |-> GB_FREE(CopyBlock(a.r, a.ptr, ptr, old_size), ptr), ptr |-> a.ptr]

\* old_size and new_size of gb_string_make_space_for
old_size_noterm(len) == HeaderSize + len
old_size(len) == HeaderSize + len + 1

new_size_noterm(new_len) == HeaderSize + new_len
new_size(new_len) == HeaderSize + new_len + 1

\* the capacity gb_string_make_space_for records after it has grown the block
grown_capacity_slack(len, add_len) == len + add_len + add_len
grown_capacity(len, add_len) == len + add_len

\* "if (available >= add_len)": enough space left
enough_space_strict(available, add_len) == available > add_len
enough_space(available, add_len) == available >= add_len

gb_string_make_space_for(r, str, add_len, ok) ==
    LET len == gb_string_length(r.heap, str)
        new_len == grown_capacity(len, add_len)
        available == gb_string_available_space(r.heap, str)
    IN  IF enough_space(available, add_len) THEN [r |-> r, ret |-> str]
        ELSE LET a == gb__string_realloc(r, str, old_size(gb_string_length(r.heap, str)),
                                         new_size(new_len), ok)
             IN IF a.ptr = GB_NULLPTR THEN [r |-> a.r, ret |-> GB_NULLPTR]
                ELSE [r |-> gb_set_string_capacity(a.r, a.ptr, new_len), ret |-> a.ptr]

\* ------------------------------------------------------------------ append
\* where gb_append_string_length copies the source to: str + curr_len
append_dest_after(curr_len) == curr_len + 1
append_dest(curr_len) == curr_len

gb_append_string_length(r, str, other, other_len, ok, junk) ==
    LET curr_len == gb_string_length(r.heap, str)
        m == gb_string_make_space_for(r, str, other_len, ok)
    IN  IF m.ret = GB_NULLPTR THEN [r |-> m.r, ret |-> GB_NULLPTR]
        ELSE LET s == m.ret
                 at == append_dest(curr_len)
                 r1 == [m.r EXCEPT !.ub = @ \cup SrcUB(m.r.heap, other, other_len)]
                 r2 == WriteBytes(r1, s, at, SrcRead(m.r.heap, other, other_len, junk))
                 r3 == WriteBytes(r2, s, curr_len + other_len, <<NUL>>)
             IN [r |-> gb_set_string_length(r3, s, curr_len + other_len), ret |-> s]

gb_append_string(r, str, other, ok, junk) ==
    gb_append_string_length(r, str, StrSrc(other), gb_string_length(r.heap, other), ok, junk)

gb_append_cstring(r, str, other, ok) ==
    gb_append_string_length(r, str, BytesSrc(other), strlen(other), ok, <<>>)

\* ------------------------------------------------------------------ assign
\* the add_len gb_set_string asks of gb_string_make_space_for
set_string_add_len_whole(len, curr_len) == len
set_string_add_len(len, curr_len) == len - curr_len

gb_set_string(r, str, cstr, ok) ==
    LET len == strlen(cstr)
        m == IF gb_string_capacity(r.heap, str) < len
             THEN gb_string_make_space_for(r, str,
                      set_string_add_len(len, gb_string_length(r.heap, str)), ok)
             ELSE [r |-> r, ret |-> str]
    IN  IF m.ret = GB_NULLPTR THEN [r |-> m.r, ret |-> GB_NULLPTR]
        ELSE LET r1 == WriteBytes(m.r, m.ret, 0, SubSeq(cstr, 1, len))
                 r2 == WriteBytes(r1, m.ret, len, <<NUL>>)
             IN [r |-> gb_set_string_length(r2, m.ret, len), ret |-> m.ret]

\* -------------------------------------------------------------------- trim
\* while (start_pos <= end && strchr(cut_set, *start_pos)) start_pos++;
RECURSIVE trim_start(_, _, _, _)
trim_start(data, cut_set, start_pos, end) ==
    IF start_pos <= end /\ strchr(cut_set, data[start_pos + 1])
    THEN trim_start(data, cut_set, start_pos + 1, end)
    ELSE start_pos

\* while (end_pos > start_pos && strchr(cut_set, *end_pos)) end_pos--;
RECURSIVE trim_end(_, _, _, _)
trim_end(data, cut_set, end_pos, start_pos) ==
    IF end_pos > start_pos /\ strchr(cut_set, data[end_pos + 1])
    THEN trim_end(data, cut_set, end_pos - 1, start_pos)
    ELSE end_pos

trim_len(start_pos, end_pos) == IF start_pos > end_pos THEN 0 ELSE (end_pos - start_pos) + 1

gb_trim_string(r, str, cut_set) ==
    LET data == r.heap[str].data
        end == gb_string_length(r.heap, str) - 1
        start_pos == trim_start(data, cut_set, 0, end)
        end_pos == trim_end(data, cut_set, end, start_pos)
        len == trim_len(start_pos, end_pos)
        r1 == IF start_pos # 0
              THEN WriteBytes(r, str, 0, ReadBytes(r.heap, str, start_pos, len, <<>>))
              ELSE r
        r2 == WriteBytes(r1, str, len, <<NUL>>)
    IN [r |-> gb_set_string_length(r2, str, len), ret |-> str]

\* ---------------------------------------------------------------- equality
gb_strings_are_equal(heap, lhs, rhs) ==
    LET lhs_len == gb_string_length(heap, lhs)
        rhs_len == gb_string_length(heap, rhs)
    IN  IF lhs_len # rhs_len THEN FALSE
        ELSE \A i \in 0..(lhs_len - 1) : heap[lhs].data[i + 1] = heap[rhs].data[i + 1]

\* ----------------------------------------------------------- state machine
\* A client holding two handles, as string_test does, calling the library.
VARIABLES
    heap,        \* block id -> block
    str,         \* the client's gb_String str
    other_str,   \* the client's gb_String other_str
    last,        \* the last call: its arguments and what it did
    crashed,     \* an undefined access has ended the process
    input,       \* the byte arrays a scripted client was given
    pc           \* the position of a scripted client

vars == <<heap, str, other_str, last, crashed, input, pc>>

NoCall == [op |-> "none", h |-> GB_NULLPTR, ret |-> GB_NULLPTR, add |-> 0, arg |-> <<>>,
           nullsrc |-> FALSE, alias |-> FALSE, slack |-> FALSE,
           allocs |-> <<>>, fails |-> 0, frees |-> <<>>, ub |-> {}]

NoInput == [a |-> <<>>, b |-> <<>>, c |-> <<>>, reserve |-> 0]

Init ==
    /\ heap = [b \in Blocks |-> DeadBlock]
    /\ str = GB_NULLPTR
    /\ other_str = GB_NULLPTR
    /\ last = NoCall
    /\ crashed = FALSE
    /\ input = NoInput
    /\ pc = "free_running"

Payload(b) == SubSeq(b.data, 1, b.len)

\* the call's effect on the heap and its record; an undefined access may end the process
Call(op, h, res, add, arg, nullsrc, alias) ==
    /\ heap' = res.r.heap
    /\ last' = [op |-> op, h |-> h, ret |-> res.ret, add |-> add, arg |-> arg,
                nullsrc |-> nullsrc, alias |-> alias,
                slack |-> (h # GB_NULLPTR /\ heap[h].cap > heap[h].len),
                allocs |-> res.r.allocs, fails |-> res.r.fails, frees |-> res.r.frees,
                ub |-> res.r.ub]
    /\ crashed' \in IF res.r.ub # {} THEN BOOLEAN ELSE {FALSE}
    /\ UNCHANGED input

\* malloc may fail whenever it is called: the failing outcome of a call that asks it
Outcome(ok, res) == ok \/ res.r.fails > 0

\* str = f(str, ...): a careful caller keeps its handle when the call fails
Reassign(res) == str' = IF res.ret # GB_NULLPTR THEN res.ret ELSE str

MakeStringLength ==
    /\ ~crashed /\ str = GB_NULLPTR
    /\ \E ok \in BOOLEAN :
       \E a \in [init : {NullSrc} \cup {BytesSrc(b) : b \in ByteSeqs}, len : 0..MaxSrc] :
          /\ a.init.kind = "bytes" => a.len = Len(a.init.bytes)
          /\ LET res == gb_make_string_length(Start(heap), a.init, a.len, ok) IN
             /\ Outcome(ok, res)
             /\ Call("make_string_length", GB_NULLPTR, res, a.len, <<>>, a.init.kind = "null",
                     FALSE)
             /\ str' = res.ret
    /\ UNCHANGED <<other_str, pc>>

MakeString ==
    /\ ~crashed /\ str = GB_NULLPTR
    /\ \E ok \in BOOLEAN :
       \E s \in {NullSrc} \cup {BytesSrc(c) : c \in CStrings} :
          LET res == gb_make_string(Start(heap), s, ok) IN
          /\ Outcome(ok, res)
          /\ Call("make_string", GB_NULLPTR, res, 0, <<>>, s.kind = "null", FALSE)
          /\ str' = res.ret
    /\ UNCHANGED <<other_str, pc>>

DuplicateString ==
    /\ ~crashed /\ str # GB_NULLPTR /\ other_str = GB_NULLPTR
    /\ heap[str].len <= MaxSrc
    /\ \E ok \in BOOLEAN :
          LET res == gb_duplicate_string(Start(heap), str, ok) IN
          /\ Outcome(ok, res)
          /\ Call("duplicate_string", str, res, 0, <<>>, FALSE, FALSE)
          /\ other_str' = res.ret
    /\ UNCHANGED <<str, pc>>

FreeString ==
    /\ ~crashed
    /\ LET res == [r |-> gb_free_string(Start(heap), str), ret |-> GB_NULLPTR] IN
          Call("free_string", str, res, 0, <<>>, FALSE, FALSE)
    /\ str' = GB_NULLPTR
    /\ UNCHANGED <<other_str, pc>>

FreeOtherString ==
    /\ ~crashed
    /\ LET res == [r |-> gb_free_string(Start(heap), other_str), ret |-> GB_NULLPTR] IN
          Call("free_string", other_str, res, 0, <<>>, FALSE, FALSE)
    /\ other_str' = GB_NULLPTR
    /\ UNCHANGED <<str, pc>>

ClearString ==
    /\ ~crashed /\ str # GB_NULLPTR
    /\ LET res == [r |-> gb_clear_string(Start(heap), str), ret |-> str] IN
          Call("clear_string", str, res, 0, <<>>, FALSE, FALSE)
    /\ UNCHANGED <<str, other_str, pc>>

MakeSpaceFor ==
    /\ ~crashed /\ str # GB_NULLPTR
    /\ \E ok \in BOOLEAN :
       \E add_len \in 0..MaxAdd :
          /\ heap[str].len + add_len <= MaxLen
          /\ LET res == gb_string_make_space_for(Start(heap), str, add_len, ok) IN
             /\ Outcome(ok, res)
             /\ Call("make_space_for", str, res, add_len, <<>>, FALSE, FALSE)
             /\ Reassign(res)
    /\ UNCHANGED <<other_str, pc>>

AppendStringLength ==
    /\ ~crashed /\ str # GB_NULLPTR
    /\ \E ok \in BOOLEAN :
       \E other \in ByteSeqs :
          /\ heap[str].len + Len(other) <= MaxLen
          /\ LET res == gb_append_string_length(Start(heap), str, BytesSrc(other), Len(other),
                                                ok, <<>>) IN
             /\ Outcome(ok, res)
             /\ Call("append_string_length", str, res, Len(other), <<>>, FALSE, FALSE)
             /\ Reassign(res)
    /\ UNCHANGED <<other_str, pc>>

AppendString ==
    /\ ~crashed /\ str # GB_NULLPTR
    /\ \E ok \in BOOLEAN :
       \E other \in {str, other_str} \ {GB_NULLPTR} :
       \E junk \in [1..heap[other].len -> Byte] :
          /\ heap[str].len + heap[other].len <= MaxLen
          /\ LET res == gb_append_string(Start(heap), str, other, ok, junk) IN
             /\ Outcome(ok, res)
             /\ res.r.ub = {} => junk = Payload(heap[other])
             /\ Call("append_string", str, res, heap[other].len, <<>>, FALSE, other = str)
             /\ Reassign(res)
    /\ UNCHANGED <<other_str, pc>>

AppendCstring ==
    /\ ~crashed /\ str # GB_NULLPTR
    /\ \E ok \in BOOLEAN :
       \E other \in CStrings :
          /\ heap[str].len + strlen(other) <= MaxLen
          /\ LET res == gb_append_cstring(Start(heap), str, other, ok) IN
             /\ Outcome(ok, res)
             /\ Call("append_cstring", str, res, strlen(other), <<>>, FALSE, FALSE)
             /\ Reassign(res)
    /\ UNCHANGED <<other_str, pc>>

SetString ==
    /\ ~crashed /\ str # GB_NULLPTR
    /\ \E ok \in BOOLEAN :
       \E cstr \in CStrings :
          LET res == gb_set_string(Start(heap), str, cstr, ok) IN
          /\ Outcome(ok, res)
          /\ Call("set_string", str, res, 0, cstr, FALSE, FALSE)
          /\ Reassign(res)
    /\ UNCHANGED <<other_str, pc>>

TrimString ==
    /\ ~crashed /\ str # GB_NULLPTR
    /\ \E cut_set \in CStrings :
          LET res == gb_trim_string(Start(heap), str, cut_set) IN
          /\ Call("trim_string", str, res, 0, cut_set, FALSE, FALSE)
          /\ Reassign(res)
    /\ UNCHANGED <<other_str, pc>>

Next ==
    \/ MakeStringLength
    \/ MakeString
    \/ DuplicateString
    \/ FreeString
    \/ FreeOtherString
    \/ ClearString
    \/ MakeSpaceFor
    \/ AppendStringLength
    \/ AppendString
    \/ AppendCstring
    \/ SetString
    \/ TrimString

Spec == Init /\ [][Next]_vars

\* ------------------------------------------------------- a scripted client
\* str = make(a); reserve; other_str = make(b); str = append(str, other_str);
\* str = append(str, c); free(other_str); other_str = make(a b c)
CatSeqs == SeqsUpTo(Byte, MaxSrc + 1)

CatInit ==
    /\ heap = [b \in Blocks |-> DeadBlock]
    /\ str = GB_NULLPTR
    /\ other_str = GB_NULLPTR
    /\ last = NoCall
    /\ crashed = FALSE
    /\ input \in [a : CatSeqs, b : CatSeqs, c : ByteSeqs, reserve : 0..MaxAdd]
    /\ pc = "start"

\* where the client goes after a call that returned res
Then(res, next) == pc' = IF res.ret = GB_NULLPTR THEN "failed" ELSE next

CatMake ==
    /\ ~crashed /\ pc = "start"
    /\ \E ok \in BOOLEAN :
          LET res == gb_make_string_length(Start(heap), BytesSrc(input.a), Len(input.a), ok) IN
          /\ Outcome(ok, res)
          /\ Call("make_string_length", GB_NULLPTR, res, Len(input.a), <<>>, FALSE, FALSE)
          /\ str' = res.ret
          /\ Then(res, "a")
    /\ UNCHANGED other_str

CatReserve ==
    /\ ~crashed /\ pc = "a"
    /\ \E ok \in BOOLEAN :
          LET res == gb_string_make_space_for(Start(heap), str, input.reserve, ok) IN
          /\ Outcome(ok, res)
          /\ Call("make_space_for", str, res, input.reserve, <<>>, FALSE, FALSE)
          /\ Reassign(res)
          /\ Then(res, "reserved")
    /\ UNCHANGED other_str

CatMakeOther ==
    /\ ~crashed /\ pc = "reserved"
    /\ \E ok \in BOOLEAN :
          LET res == gb_make_string_length(Start(heap), BytesSrc(input.b), Len(input.b), ok) IN
          /\ Outcome(ok, res)
          /\ Call("make_string_length", GB_NULLPTR, res, Len(input.b), <<>>, FALSE, FALSE)
          /\ other_str' = res.ret
          /\ Then(res, "other")
    /\ UNCHANGED str

CatAppendOther ==
    /\ ~crashed /\ pc = "other"
    /\ \E ok \in BOOLEAN :
          LET res == gb_append_string(Start(heap), str, other_str, ok, <<>>) IN
          /\ Outcome(ok, res)
          /\ Call("append_string", str, res, heap[other_str].len, <<>>, FALSE, FALSE)
          /\ Reassign(res)
          /\ Then(res, "ab")
    /\ UNCHANGED other_str

CatAppendBytes ==
    /\ ~crashed /\ pc = "ab"
    /\ \E ok \in BOOLEAN :
          LET res == gb_append_string_length(Start(heap), str, BytesSrc(input.c), Len(input.c),
                                             ok, <<>>) IN
          /\ Outcome(ok, res)
          /\ Call("append_string_length", str, res, Len(input.c), <<>>, FALSE, FALSE)
          /\ Reassign(res)
          /\ Then(res, "abc")
    /\ UNCHANGED other_str

CatFreeOther ==
    /\ ~crashed /\ pc = "abc"
    /\ LET res == [r |-> gb_free_string(Start(heap), other_str), ret |-> GB_NULLPTR] IN
          Call("free_string", other_str, res, 0, <<>>, FALSE, FALSE)
    /\ other_str' = GB_NULLPTR
    /\ pc' = "freed"
    /\ UNCHANGED str

CatMakeConcat ==
    /\ ~crashed /\ pc = "freed"
    /\ \E ok \in BOOLEAN :
          LET abc == input.a \o input.b \o input.c
              res == gb_make_string_length(Start(heap), BytesSrc(abc), Len(abc), ok) IN
          /\ Outcome(ok, res)
          /\ Call("make_string_length", GB_NULLPTR, res, Len(abc), <<>>, FALSE, FALSE)
          /\ other_str' = res.ret
          /\ Then(res, "done")
    /\ UNCHANGED str

CatNext ==
    \/ CatMake
    \/ CatReserve
    \/ CatMakeOther
    \/ CatAppendOther
    \/ CatAppendBytes
    \/ CatFreeOther
    \/ CatMakeConcat

SpecConcat == CatInit /\ [][CatNext]_vars

\* -------------------------------------------------------------- properties
Handles == {str, other_str} \ {GB_NULLPTR}
GrowOps == {"make_space_for", "append_string_length", "append_string", "append_cstring",
            "set_string"}
AppendOps == {"append_string_length", "append_string", "append_cstring"}
MakeOps == {"make_string_length", "make_string", "duplicate_string"}

\* C1: in every state of a running client, each buffer it holds has the byte
\* 0x00 at payload[length], length being the header's value; this includes
\* the state right after gb_string_make_space_for has moved the block.
TerminatorInvariant ==
    ~crashed =>
        \A h \in Handles :
            /\ heap[h].live
            /\ heap[h].len + 1 \in DOMAIN heap[h].data
            /\ heap[h].data[heap[h].len + 1] = NUL

\* a non-empty buffer with slack has just been moved by gb_string_make_space_for
TerminatorWitness ==
    /\ ~crashed
    /\ last.op = "make_space_for" /\ last.frees # <<>> /\ last.slack
    /\ str = last.ret /\ str # GB_NULLPTR
    /\ heap[str].len > 0
    /\ heap[str].data[heap[str].len + 1] = NUL

AllocFailureKeepsBuffer ==
    [][(last'.op \in GrowOps /\ last'.fails > 0) =>
          /\ last'.ret = GB_NULLPTR
          /\ last'.frees = <<>>
          /\ last'.ub = {}
          /\ heap' = heap
          /\ str' = str /\ heap'[str'].live]_vars

\* the allocator has failed under gb_set_string on a non-empty buffer
AllocFailureWitness ==
    /\ last.op = "set_string" /\ last.fails > 0 /\ last.ret = GB_NULLPTR
    /\ str # GB_NULLPTR /\ heap[str].len > 0 /\ heap[str].live

\* C4: a constructing call during which the allocator fails returns the null
\* handle and does nothing else: no write goes through the null result.
MakeFailureOnlyReturnsNull ==
    (last.op \in MakeOps /\ last.fails > 0) =>
        /\ last.ret = GB_NULLPTR
        /\ last.ub = {}
        /\ ~crashed

\* C5: when capacity - length >= additional, gb_string_make_space_for returns
\* the same handle without allocating or freeing and changes nothing; an
\* append that fits keeps the handle, the block and the capacity, and changes
\* only the length and the bytes at old length .. old length + other_len.
NoGrowthWhenFits ==
    [][LET L == last'
           h == L.h
       IN  /\ (L.op = "make_space_for" /\ heap[h].cap - heap[h].len >= L.add) =>
                 /\ L.ret = h /\ L.allocs = <<>> /\ L.frees = <<>> /\ L.fails = 0
                 /\ heap' = heap
           /\ (L.op \in AppendOps /\ heap[h].cap - heap[h].len >= L.add) =>
                 /\ L.ret = h /\ L.allocs = <<>> /\ L.frees = <<>> /\ L.fails = 0
                 /\ heap'[h].live
                 /\ heap'[h].cap = heap[h].cap
                 /\ heap'[h].size = heap[h].size
                 /\ heap'[h].len = heap[h].len + L.add
                 /\ Len(heap'[h].data) = Len(heap[h].data)
                 /\ \A j \in 1..Len(heap[h].data) :
                       (j <= heap[h].len \/ j > heap[h].len + L.add + 1) =>
                           heap'[h].data[j] = heap[h].data[j]
                 /\ \A b \in Blocks \ {h} : heap'[b] = heap[b]]_vars

\* an append of two bytes has fitted into the slack of the buffer
NoGrowthWitness ==
    /\ last.op = "append_cstring" /\ last.add = MaxStr /\ last.slack
    /\ last.allocs = <<>> /\ last.fails = 0
    /\ last.ret = str /\ str # GB_NULLPTR /\ heap[str].len > last.add

\* C6: when capacity - length < additional and the allocator succeeds,
\* gb_string_make_space_for allocates one block of header + length +
\* additional + 1 bytes, frees the old block once, and returns a buffer of
\* capacity length + additional with the old length and the old payload
\* bytes 0 .. length, whatever the old capacity was.
GrowthIsExact ==
    [][LET L == last'
           h == L.h
           len == heap[h].len
       IN  (L.op = "make_space_for" /\ heap[h].cap - len < L.add /\ L.fails = 0) =>
              /\ L.allocs = <<HeaderSize + len + L.add + 1>>
              /\ L.frees = <<h>>
              /\ L.ub = {}
              /\ L.ret # GB_NULLPTR /\ L.ret # h /\ str' = L.ret
              /\ ~heap'[h].live
              /\ heap'[L.ret].live
              /\ heap'[L.ret].size = HeaderSize + len + L.add + 1
              /\ heap'[L.ret].cap = len + L.add
              /\ heap'[L.ret].len = len
              /\ SubSeq(heap'[L.ret].data, 1, len + 1) = SubSeq(heap[h].data, 1, len + 1)]_vars

\* a non-empty buffer whose capacity exceeded its length has been grown
GrowthWitness ==
    /\ last.op = "make_space_for" /\ last.slack /\ last.fails = 0
    /\ last.frees = <<last.h>> /\ last.add = MaxAdd
    /\ str = last.ret /\ heap[str].len > 0 /\ heap[str].cap = heap[str].len + last.add

\* ---- C8: what gb_trim_string is to leave
CutMembers(cut_set) == {cut_set[i] : i \in 1..strlen(cut_set)}

RECURSIVE DropLeading(_, _)
DropLeading(s, members) ==
    IF s # <<>> /\ Head(s) \in members THEN DropLeading(Tail(s), members) ELSE s

RECURSIVE DropTrailing(_, _)
DropTrailing(s, members) ==
    IF s # <<>> /\ s[Len(s)] \in members
    THEN DropTrailing(SubSeq(s, 1, Len(s) - 1), members) ELSE s

Trimmed(s, members) == DropTrailing(DropLeading(s, members), members)

\* C8: gb_trim_string leaves as payload the old payload without its longest
\* prefix and longest suffix of cut_set members, whatever bytes the payload
\* holds, sets the length to the number of bytes left and keeps the handle.
TrimRemovesOnlyCutSet ==
    [][last'.op = "trim_string" =>
          /\ last'.ret = last'.h /\ str' = str
          /\ Payload(heap'[str']) = Trimmed(Payload(heap[str]), CutMembers(last'.arg))
          /\ heap'[str'].len = Len(Trimmed(Payload(heap[str]), CutMembers(last'.arg)))]_vars

NoUseAfterFree ==
    [][/\ last'.ub \cap {"freed_read", "freed_write", "double_free"} = {}
       /\ (last'.op = "append_string" /\ last'.alias /\ last'.ret # GB_NULLPTR) =>
             Payload(heap'[last'.ret]) = Payload(heap[str]) \o Payload(heap[str])]_vars

\* C7: for all byte sequences a, b, c, each successful append leaves the old
\* payload followed by the bytes appended and adds their number to the
\* length, moved or not, so append(append(make(a), b), c) has length
\* len(a) + len(b) + len(c) and the payload of make(concat(a, b, c)).
AppendIsConcatenation ==
    /\ pc = "ab" =>
          /\ Payload(heap[str]) = input.a \o input.b
          /\ heap[str].len = Len(input.a) + Len(input.b)
    /\ pc \in {"abc", "freed", "done"} =>
          /\ Payload(heap[str]) = input.a \o input.b \o input.c
          /\ heap[str].len = Len(input.a) + Len(input.b) + Len(input.c)
    /\ pc = "done" =>
          /\ Payload(heap[str]) = Payload(heap[other_str])
          /\ gb_strings_are_equal(heap, str, other_str)
    /\ last.ub = {}

\* three non-empty arrays have been joined, the first append into a moved
\* block, and the result compared with the buffer made of their concatenation
ConcatenationWitness ==
    /\ pc = "done" /\ ~crashed
    /\ Len(input.a) > 0 /\ Len(input.b) > input.reserve /\ Len(input.c) > 0
    /\ input.reserve > 0
    /\ heap[str].len = Len(input.a) + Len(input.b) + Len(input.c)
    /\ Payload(heap[str]) = input.a \o input.b \o input.c

====
